---- MODULE Spec2Model ----
(***************************************************************************)
(* A model of the coordination layer of the ferris karaoke server:         *)
(*   - the song queue actor (src/src/actors/song_coordinator.rs),          *)
(*   - the download and search worker pools                                *)
(*     (src/src/actors/video_downloader.rs, video_searcher.rs).            *)
(***************************************************************************)
EXTENDS Integers, Sequences, FiniteSets, TLC

\* ------------------------------------------------------------------ bounds
NumUuids == 3
NumNames == 3
NumCallers == 2
NumSmallUuids == 2
NumSmallNames == 2
MaxPosition == 3
MaxSubscribers == 1
\* pools: jobs submitted and song names they target
MaxJobs == 3
NumPoolNames == 1
\* pools under a burst: submissions beyond the capacity, and jobs dequeued
MaxBurstOver == 2
MaxBurstHandled == 2
\* the karaoke route: queue_song requests
NumRequests == 2
\* the worker threads of the tokio runtime: the cores of the host
NumThreads == 2
\* SSE responses open at once, and events published while they are looked at
NumStreams == 1
MaxEvents == 18
\* jobs submitted beyond the number of workers of a pool
MaxOverWorkers == 1

UUIDs == 1..NumUuids
Names == 1..NumNames
Positions == 0..MaxPosition
Callers == 1..NumCallers
\* the ids and names of the specifications that vary something else
SmallUuids == 1..NumSmallUuids
SmallNames == 1..NumSmallNames
PoolNames == 1..NumPoolNames

\* ------------------------------------------------------- program constants
\* mpsc::channel(8) of SongActorHandle::new
MailboxCapacity == 8
\* the literal bounds of KeyUp / KeyDown
KeyUpperBound == 3
KeyLowerBound == -3
\* async_channel::bounded(100) of both pools
ChannelCapacity == 100
\* NUM_CONSUMERS of VideoDlActorHandle::new and VideoSearcherActorHandle::new
NUM_CONSUMERS_DL == 5
NUM_CONSUMERS_SEARCH == 10
\* router.rs: sync::broadcast::channel(10)
BroadcastCapacity == 10

\* QueuedSongStatus
Statuses == {"InProgress", "Failed", "Success"}

VARIABLES
    song_deque,     \* SongActor.song_deque: the queue, front first
    current_key,    \* SongActor.current_key
    mailbox,        \* the actor's mpsc channel: messages accepted, not yet handled
    callerPc,       \* per caller of the handle: "idle" | "waiting" | "replied"
    response,       \* the value last sent on a respond_to oneshot, and to whom
    subscribers,    \* number of active receivers of the broadcast channel
    published,      \* the events passed to sse_broadcaster.send by the last handled message
    shadow_deque,   \* history: the queue obtained by applying every accepted message,
                    \* one at a time, in the order of acceptance into the mailbox
    poolKind,       \* the pool instance looked at: "dl" | "search"
    configInit,     \* globals::CONFIG_DIR is set
    jobQueue,       \* the pool's async_channel: jobs accepted, not yet dequeued
    jobs,           \* per submitted job, by id: the caller's side and what was sent to it
    worker,         \* per pool worker: where it is in its loop and the job it holds
    fs,             \* per song name: the asset directory under base_dir
    handled,        \* number of jobs dequeued so far
    route,          \* per queue_song request of the karaoke route: where it is
    bcast           \* the broadcast channel of SseEvents and the streams reading it

actorVars == <<song_deque, current_key, mailbox, callerPc, response, subscribers,
               published, shadow_deque>>
poolVars == <<poolKind, configInit, jobQueue, jobs, worker, fs, handled>>
vars == <<actorVars, poolVars, route, bcast>>

\* ------------------------------------------------------------------- songs
\* Song: yt_link and is_key_changeable are carried but never read by the actor.
Song(u, n, s) == [uuid |-> u, name |-> n, status |-> s]

\* impl PartialEq for Song
SongEqUuidOnly(a, b) == a.uuid = b.uuid
SongEq(a, b) == a.uuid = b.uuid \/ a.name = b.name

\* VecDeque::contains, by PartialEq
Contains(q, s) == \E i \in 1..Len(q) : SongEq(q[i], s)

\* iter().position(|x| x.uuid == song_uuid): 1-based here, 0 for None
Position(q, id) ==
    IF \E i \in 1..Len(q) : q[i].uuid = id
    THEN CHOOSE i \in 1..Len(q) :
            /\ q[i].uuid = id
            /\ \A j \in 1..(i - 1) : q[j].uuid # id
    ELSE 0

\* VecDeque::remove(index), index 1-based here
RemoveAt(q, i) == SubSeq(q, 1, i - 1) \o SubSeq(q, i + 1, Len(q))

\* VecDeque::insert(index, value), index 0-based as in the source
InsertAt(q, idx, s) == SubSeq(q, 1, idx) \o <<s>> \o SubSeq(q, idx + 1, Len(q))

Min(a, b) == IF a <= b THEN a ELSE b

\* ---------------------------------------------------------------- messages
NoArg == 0
Msg(t, c, u, n, s, p) ==
    [type |-> t, from |-> c, uuid |-> u, name |-> n, status |-> s, position |-> p]

\* responses sent on respond_to, with the fields the source puts in them
Resp(t) ==
    [tag |-> t, to |-> 0, key |-> 0, song |-> <<>>, queue |-> <<>>, name |-> 0, uuid |-> 0]
NoResponse == Resp("none")
RespKey(k) == [Resp("OkKey") EXCEPT !.key = k]
RespSong(s) == [Resp("Song") EXCEPT !.song = s]
RespQueue(q) == [Resp("Queue") EXCEPT !.queue = q]
RespAlreadyQueued(n) == [Resp("SongAlreadyQueued") EXCEPT !.name = n]
RespUpdateFailed(u) == [Resp("UpdateSongStatusFailed") EXCEPT !.uuid = u]

\* SseEvent
QueueUpdated(q) == [type |-> "QueueUpdated", queue |-> q, current_key |-> 0]
KeyChange(k) == [type |-> "KeyChange", queue |-> <<>>, current_key |-> k]

\* ------------------------------------------------- SongActor::handle_message
\* QueueSong: the queue after the message
QueueSongDequeFront(q, m) ==
    IF Contains(q, Song(m.uuid, m.name, m.status))
    THEN q
    ELSE <<Song(m.uuid, m.name, m.status)>> \o q
QueueSongDequeAlways(q, m) == Append(q, Song(m.uuid, m.name, m.status))
QueueSongDeque(q, m) ==
    IF Contains(q, Song(m.uuid, m.name, m.status))
    THEN q
    ELSE Append(q, Song(m.uuid, m.name, m.status))

\* RemoveSong
RemoveSongDequeHead(q, m) == IF Position(q, m.uuid) # 0 THEN Tail(q) ELSE q
RemoveSongDeque(q, m) ==
    IF Position(q, m.uuid) # 0 THEN RemoveAt(q, Position(q, m.uuid)) ELSE q

\* PopSong: pop_front
PopSongDequeBack(q) == IF Len(q) > 0 THEN SubSeq(q, 1, Len(q) - 1) ELSE q
PopSongDeque(q) == IF Len(q) > 0 THEN Tail(q) ELSE q

\* Reposition
RepositionDequeTail(q, m) ==
    IF Position(q, m.uuid) # 0
    THEN Append(RemoveAt(q, Position(q, m.uuid)), q[Position(q, m.uuid)])
    ELSE q
RepositionDequeAbsentPops(q, m) ==
    IF Position(q, m.uuid) # 0
    THEN InsertAt(RemoveAt(q, Position(q, m.uuid)),
                  Min(m.position, Len(q) - 1), q[Position(q, m.uuid)])
    ELSE IF Len(q) > 0 THEN Tail(q) ELSE q
RepositionDequeInsertOnly(q, m) ==
    IF Position(q, m.uuid) # 0
    THEN InsertAt(q, Min(m.position, Len(q)), q[Position(q, m.uuid)])
    ELSE q
RepositionDeque(q, m) ==
    IF Position(q, m.uuid) # 0
    THEN LET song == q[Position(q, m.uuid)]
             rest == RemoveAt(q, Position(q, m.uuid))
             new_position == Min(m.position, Len(rest))
         IN InsertAt(rest, new_position, song)
    ELSE q

\* UpdateSongStatus
UpdateSongStatusDequeAll(q, m) == [i \in 1..Len(q) |-> [q[i] EXCEPT !.status = m.status]]
UpdateSongStatusDequeFront(q, m) ==
    IF Len(q) > 0 THEN [q EXCEPT ![1].status = m.status] ELSE q
UpdateSongStatusDeque(q, m) ==
    IF Position(q, m.uuid) # 0
    THEN [q EXCEPT ![Position(q, m.uuid)].status = m.status]
    ELSE q

\* the queue after handling message m
HandleDeque(q, m) ==
    CASE m.type = "QueueSong" -> QueueSongDeque(q, m)
      [] m.type = "RemoveSong" -> RemoveSongDeque(q, m)
      [] m.type = "PopSong" -> PopSongDeque(q)
      [] m.type = "Reposition" -> RepositionDeque(q, m)
      [] m.type = "UpdateSongStatus" -> UpdateSongStatusDeque(q, m)
      [] OTHER -> q

\* KeyUp / KeyDown guards
KeyUpExceededLax(k) == k > KeyUpperBound
KeyUpExceeded(k) == k >= KeyUpperBound
KeyDownExceededLax(k) == k < KeyLowerBound
KeyDownExceeded(k) == k <= KeyLowerBound

\* PopSong: self.current_key = 0
PopSongKeyKept(k, q) == IF Len(q) > 0 THEN 0 ELSE k
PopSongKey(k, q) == 0

\* current_key after handling message m
HandleKeyResetOnRemove(k, q, m) ==
    CASE m.type \in {"PopSong", "RemoveSong"} -> 0
      [] m.type = "KeyUp" -> IF KeyUpExceeded(k) THEN k ELSE k + 1
      [] m.type = "KeyDown" -> IF KeyDownExceeded(k) THEN k ELSE k - 1
      [] OTHER -> k
HandleKey(k, q, m) ==
    CASE m.type = "PopSong" -> PopSongKey(k, q)
      [] m.type = "KeyUp" -> IF KeyUpExceeded(k) THEN k ELSE k + 1
      [] m.type = "KeyDown" -> IF KeyDownExceeded(k) THEN k ELSE k - 1
      [] OTHER -> k

\* what handle_message sends on respond_to
HandleReply(k, q, m) ==
    CASE m.type = "QueueSong" ->
            IF Contains(q, Song(m.uuid, m.name, m.status))
            THEN RespAlreadyQueued(m.name) ELSE Resp("Ok")
      [] m.type = "RemoveSong" -> Resp("Unit")
      [] m.type = "PopSong" ->
            IF Len(q) > 0 THEN RespSong(Head(q)) ELSE Resp("NoSong")
      [] m.type = "Reposition" -> Resp("Ok")
      [] m.type = "Current" ->
            IF Len(q) > 0 THEN [RespSong(Head(q)) EXCEPT !.tag = "OkSong"]
            ELSE Resp("OkNoSong")
      [] m.type = "GetQueue" -> RespQueue(q)
      [] m.type = "KeyUp" ->
            IF KeyUpExceeded(k) THEN Resp("KeyUpFailed") ELSE RespKey(k + 1)
      [] m.type = "KeyDown" ->
            IF KeyDownExceeded(k) THEN Resp("KeyDownFailed") ELSE RespKey(k - 1)
      [] m.type = "GetKey" -> RespKey(k)
      [] m.type = "UpdateSongStatus" ->
            IF Position(q, m.uuid) # 0
            THEN Resp("Ok") ELSE RespUpdateFailed(m.uuid)

\* the events handle_message passes to sse_broadcaster.send
HandleEventsAlways(k, q, m) ==
    CASE m.type \in {"QueueSong", "RemoveSong", "PopSong", "Reposition",
                     "UpdateSongStatus"} -> <<QueueUpdated(HandleDeque(q, m))>>
      [] m.type = "KeyUp" -> <<KeyChange(IF KeyUpExceeded(k) THEN k ELSE k + 1)>>
      [] m.type = "KeyDown" -> <<KeyChange(IF KeyDownExceeded(k) THEN k ELSE k - 1)>>
      [] OTHER -> <<>>
HandleEventsBeforeChange(k, q, m) ==
    CASE m.type \in {"QueueSong", "RemoveSong", "PopSong", "Reposition",
                     "UpdateSongStatus"} -> <<QueueUpdated(q)>>
      [] OTHER -> <<>>
HandleEvents(k, q, m) ==
    CASE m.type = "QueueSong" ->
            IF Contains(q, Song(m.uuid, m.name, m.status))
            THEN <<>> ELSE <<QueueUpdated(QueueSongDeque(q, m))>>
      [] m.type = "RemoveSong" -> <<QueueUpdated(RemoveSongDeque(q, m))>>
      [] m.type = "PopSong" -> <<QueueUpdated(PopSongDeque(q))>>
      [] m.type = "Reposition" ->
            IF Position(q, m.uuid) # 0
            THEN <<QueueUpdated(RepositionDeque(q, m))>> ELSE <<>>
      [] m.type = "KeyUp" ->
            IF KeyUpExceeded(k) THEN <<>> ELSE <<KeyChange(k + 1)>>
      [] m.type = "KeyDown" ->
            IF KeyDownExceeded(k) THEN <<>> ELSE <<KeyChange(k - 1)>>
      [] m.type = "UpdateSongStatus" ->
            IF Position(q, m.uuid) # 0
            THEN <<QueueUpdated(UpdateSongStatusDeque(q, m))>> ELSE <<>>
      [] OTHER -> <<>>

\* broadcast::Sender::send returns Err when the channel has no active receiver
PublishFails(events) == events # <<>> /\ subscribers = 0

\* the queue after the match on send's result: the Err arm warns and answers as
\* the Ok arm does, and keeps the change made before the send
AfterPublishRollback(failed, old, new) == IF failed THEN old ELSE new
AfterPublish(failed, old, new) == new

\* ------------------------------------------------------ SongActorHandle
\* self.sender.send(msg).await: the message is accepted when the mailbox has room;
\* the caller then awaits its oneshot receiver
SendMsg(c, m) ==
    /\ callerPc[c] = "idle"
    /\ Len(mailbox) < MailboxCapacity
    /\ mailbox' = Append(mailbox, m)
    /\ callerPc' = [callerPc EXCEPT ![c] = "waiting"]
    /\ shadow_deque' = HandleDeque(shadow_deque, m)
    /\ UNCHANGED <<song_deque, current_key, response, subscribers, published>>
    /\ UNCHANGED poolVars

\* a request of a caller that is not a queue_song route task
Send(c, m) ==
    /\ SendMsg(c, m)
    /\ UNCHANGED <<route, bcast>>

queue_song(c, U, N) ==
    \E u \in U, n \in N :
        Send(c, Msg("QueueSong", c, u, n, "InProgress", NoArg))

update_song_status(c, U) ==
    \E u \in U, s \in {"Success", "Failed"} :
        Send(c, Msg("UpdateSongStatus", c, u, NoArg, s, NoArg))

remove_song(c, U) ==
    \E u \in U : Send(c, Msg("RemoveSong", c, u, NoArg, "", NoArg))

pop_song(c) == Send(c, Msg("PopSong", c, NoArg, NoArg, "", NoArg))

reposition_song(c, U) ==
    \E u \in U, p \in Positions :
        Send(c, Msg("Reposition", c, u, NoArg, "", p))

current_song(c) == Send(c, Msg("Current", c, NoArg, NoArg, "", NoArg))

get_queue(c) == Send(c, Msg("GetQueue", c, NoArg, NoArg, "", NoArg))

key_up(c) == Send(c, Msg("KeyUp", c, NoArg, NoArg, "", NoArg))

key_down(c) == Send(c, Msg("KeyDown", c, NoArg, NoArg, "", NoArg))

get_key(c) == Send(c, Msg("GetKey", c, NoArg, NoArg, "", NoArg))

\* recv.await returns: the caller has its response and may call again
Resume(c) ==
    /\ callerPc[c] = "replied"
    /\ callerPc' = [callerPc EXCEPT ![c] = "idle"]
    /\ UNCHANGED <<song_deque, current_key, mailbox, response, subscribers,
                   published, shadow_deque>>
    /\ UNCHANGED poolVars

\* the same, of a caller that is not a queue_song route task
CallerReturn(c) ==
    /\ Resume(c)
    /\ UNCHANGED <<route, bcast>>

\* ------------------------------------------------------- run_song_actor
\* receiver.recv(): the mailbox is first in, first out
NextMessageIndexLast(mb) == Len(mb)
NextMessageIndex(mb) == 1

\* while let Some(msg) = actor.receiver.recv().await: the loop goes on whatever
\* handle_message answered to the message before
ErrorTags == {"SongAlreadyQueued", "UpdateSongStatusFailed", "KeyUpFailed",
              "KeyDownFailed"}
LoopWaitsForPool(r) == \A w \in DOMAIN worker : worker[w].pc \in {"recv", "dead"}
LoopEndsOnError(r) == r.tag \notin ErrorTags
LoopGoesOn(r) == TRUE

\* one turn of the loop: recv one message and handle it to the end
\* (handle_message holds no await that suspends: every send in it is synchronous)
HandleNext ==
    /\ LoopGoesOn(response)
    /\ Len(mailbox) > 0
    /\ LET i == NextMessageIndex(mailbox)
           m == mailbox[i]
       IN /\ mailbox' = RemoveAt(mailbox, i)
          /\ song_deque' = AfterPublish(PublishFails(HandleEvents(current_key, song_deque, m)),
                                       song_deque, HandleDeque(song_deque, m))
          /\ current_key' = HandleKey(current_key, song_deque, m)
          /\ response' = [HandleReply(current_key, song_deque, m) EXCEPT !.to = m.from]
          /\ published' = HandleEvents(current_key, song_deque, m)
          /\ callerPc' = [callerPc EXCEPT ![m.from] = "replied"]
    /\ UNCHANGED <<subscribers, shadow_deque>>
    /\ UNCHANGED poolVars

\* the turn, seen from callers that are not queue_song route tasks
run_song_actor ==
    /\ HandleNext
    /\ UNCHANGED <<route, bcast>>

\* sse: sse_broadcaster.subscribe(), and a client going away
Subscribe ==
    /\ subscribers < MaxSubscribers
    /\ subscribers' = subscribers + 1
    /\ UNCHANGED <<song_deque, current_key, mailbox, callerPc, response, published,
                   shadow_deque>>
    /\ UNCHANGED poolVars
    /\ UNCHANGED <<route, bcast>>

Unsubscribe ==
    /\ subscribers > 0
    /\ subscribers' = subscribers - 1
    /\ UNCHANGED <<song_deque, current_key, mailbox, callerPc, response, published,
                   shadow_deque>>
    /\ UNCHANGED poolVars
    /\ UNCHANGED <<route, bcast>>

\* ================================================================== pools
\* VideoDlActorHandle::new / VideoSearcherActorHandle::new: the workers spawned
NumConsumersSwapped(kind) ==
    IF kind = "dl" THEN NUM_CONSUMERS_SEARCH ELSE NUM_CONSUMERS_DL
NumConsumers(kind) == IF kind = "dl" THEN NUM_CONSUMERS_DL ELSE NUM_CONSUMERS_SEARCH
Workers == 1..NumConsumers(poolKind)

NoJob == [id |-> 0, name |-> 0, is_key_changeable |-> FALSE]
\* VideoDlActorMessage::DownloadVideo / VideoSearcherActorMessage::SearchVideo;
\* id stands for the respond_to oneshot the message carries
JobMsg(j, n, p) == [id |-> j, name |-> n, is_key_changeable |-> p]

NoResult == [val |-> "none", job |-> 0]
\* the caller's side of a job
NewJob(pc, held, m) ==
    [pc |-> pc,           \* "suspended" (in send) | "waiting" (in recv) | "done" | "panicked"
     msg |-> m,           \* while suspended: the message its send holds
     sent |-> 0,          \* values sent on its respond_to
     resp |-> NoResult,   \* the value sent last, and the job it was computed for
     by |-> {},           \* the workers that dequeued it
     held |-> held,       \* its send once found the channel full
     lost |-> FALSE]      \* its respond_to was dropped without a send

JobIds == 1..Len(jobs)

\* ------------------------------------------------------------ the channel
\* async_channel::bounded(100): send completes when the queue has room
HasRoomUnbounded(q) == TRUE
HasRoom(q) == Len(q) < ChannelCapacity

\* every Receiver is dropped once every worker task has ended: the channel is closed
ChannelClosed == \A w \in Workers : worker[w].pc = "dead"

\* download_video / search_videos up to `let _ = self.sender.send(msg).await`:
\* the job is queued at once when there is room, else the caller suspends in send
SubmitJob(m) ==
    /\ ~ChannelClosed
    /\ IF HasRoom(jobQueue)
       THEN /\ jobQueue' = Append(jobQueue, m)
            /\ jobs' = Append(jobs, NewJob("waiting", FALSE, NoJob))
       ELSE /\ jobQueue' = jobQueue
            /\ jobs' = Append(jobs, NewJob("suspended", TRUE, m))
    /\ UNCHANGED <<poolKind, configInit, worker, fs, handled>>
    /\ UNCHANGED actorVars

\* a submission by a caller that is not a queue_song route task
Submit(m) ==
    /\ SubmitJob(m)
    /\ UNCHANGED <<route, bcast>>

download_video(limit, N, P) ==
    /\ poolKind = "dl"
    /\ Len(jobs) < limit
    /\ \E n \in N, p \in P : Submit(JobMsg(Len(jobs) + 1, n, p))

search_videos(limit) ==
    /\ poolKind = "search"
    /\ Len(jobs) < limit
    /\ Submit(JobMsg(Len(jobs) + 1, 0, FALSE))

\* a suspended send completes once the queue has room
SendResume ==
    \E j \in JobIds :
        /\ jobs[j].pc = "suspended"
        /\ ~ChannelClosed
        /\ HasRoom(jobQueue)
        /\ jobQueue' = Append(jobQueue, jobs[j].msg)
        /\ jobs' = [jobs EXCEPT ![j].pc = "waiting", ![j].msg = NoJob]
        /\ UNCHANGED <<poolKind, configInit, worker, fs, handled>>
        /\ UNCHANGED actorVars
        /\ UNCHANGED <<route, bcast>>

\* recv.await of the caller returns the value sent on its oneshot
CallerReceive ==
    \E j \in JobIds :
        /\ jobs[j].pc = "waiting"
        /\ jobs[j].sent > 0
        /\ jobs' = [jobs EXCEPT ![j].pc = "done", ![j].resp.val = "taken"]
        /\ UNCHANGED <<poolKind, configInit, jobQueue, worker, fs, handled>>
        /\ UNCHANGED actorVars
        /\ UNCHANGED <<route, bcast>>

\* the caller's future is dropped while it awaits the response (its client went
\* away): the oneshot receiver goes with it
CallerGone ==
    \E j \in JobIds :
        /\ jobs[j].pc = "waiting"
        /\ jobs[j].sent = 0
        /\ ~jobs[j].lost
        /\ jobs' = [jobs EXCEPT ![j].pc = "gone"]
        /\ UNCHANGED <<poolKind, configInit, jobQueue, worker, fs, handled>>
        /\ UNCHANGED actorVars
        /\ UNCHANGED <<route, bcast>>

\* ------------------------------------- run_video_dl_actor / run_video_searcher_actor
\* receiver.recv(): one worker takes the job at the front; the job leaves the queue
QueueAfterRecvKept(q) == q
QueueAfterRecv(q) == Tail(q)

\* Idle workers are all suspended in the same recv() and any of them may win the
\* job; they differ in nothing but their consumer_id, which only the logs read, so
\* the idle worker of least id stands for whichever wins.
Winner(w) == \A v \in Workers : v < w => worker[v].pc # "recv"

\* where the loop is after handle_message has returned
AfterHandleBreak == "dead"
AfterHandle == "recv"

WorkerRecv(w, limit) ==
    /\ worker[w].pc = "recv"
    /\ Winner(w)
    /\ Len(jobQueue) > 0
    /\ handled < limit
    /\ LET m == Head(jobQueue)
       IN /\ worker' = [worker EXCEPT ![w] =
                [pc |-> IF poolKind = "dl" THEN "check" ELSE "search", job |-> m]]
          /\ jobs' = [jobs EXCEPT ![m.id].by = @ \cup {w}]
    /\ jobQueue' = QueueAfterRecv(jobQueue)
    /\ handled' = handled + 1
    /\ UNCHANGED <<poolKind, configInit, fs>>
    /\ UNCHANGED actorVars
    /\ UNCHANGED <<route, bcast>>

\* let _ = respond_to.send(v): v reaches the oneshot the message carried, unless
\* the caller has dropped its receiver: send then returns v as an Err, which the
\* worker ignores
Respond(js, m, v) ==
    [js EXCEPT ![m.id].sent = IF js[m.id].pc = "gone" THEN @ ELSE @ + 1,
               ![m.id].resp = [val |-> v, job |-> m.id]]

\* where the loop is after the send: its result is bound to _ and not looked at
AfterRespondUnwrap(js, m) == IF js[m.id].pc = "gone" THEN "dead" ELSE AfterHandle
AfterRespond(js, m) == AfterHandle

\* handle_message sends v and returns to the loop
FinishAndGoOn(w, v) ==
    /\ jobs' = Respond(jobs, worker[w].job, v)
    /\ worker' = worker
Finish(w, v) ==
    /\ jobs' = Respond(jobs, worker[w].job, v)
    /\ worker' = [worker EXCEPT ![w] =
                    [pc |-> AfterRespond(jobs, worker[w].job), job |-> NoJob]]

\* --------------------------------------------- VideoDlActor::handle_message
NoDir == [dir |-> FALSE, status |-> "none", chunk |-> FALSE]

\* video_exists: status.json exists and parses, is compatible, and the chunk file
\* numbered by its segment count exists
video_exists_any_key(f, is_key_changeable) ==
    /\ f.status \notin {"none", "corrupt"}
    /\ f.chunk
video_exists(f, is_key_changeable) ==
    /\ f.status \notin {"none", "corrupt"}
    /\ ~(is_key_changeable /\ f.status = "plain")
    /\ f.chunk

\* lines 67-81: the cache check, and the response on a hit
CheckCache(w) ==
    /\ worker[w].pc = "check"
    /\ LET m == worker[w].job
       IN IF fs[m.name].dir /\ video_exists(fs[m.name], m.is_key_changeable)
          THEN Finish(w, "Ok:success")
          ELSE /\ worker' = [worker EXCEPT ![w].pc = "clear"]
               /\ jobs' = jobs
    /\ UNCHANGED <<poolKind, configInit, jobQueue, fs, handled>>
    /\ UNCHANGED actorVars
    /\ UNCHANGED <<route, bcast>>

\* lines 82-98: remove_dir_all of a directory that failed the check
ClearStale(w) ==
    /\ worker[w].pc = "clear"
    /\ LET m == worker[w].job
       IN IF fs[m.name].dir
          THEN \/ /\ fs' = [fs EXCEPT ![m.name] = NoDir]
                  /\ worker' = [worker EXCEPT ![w].pc = "fetch"]
                  /\ jobs' = jobs
               \/ /\ Finish(w, "PitchShiftError:clear")
                  /\ fs' = fs
          ELSE /\ worker' = [worker EXCEPT ![w].pc = "fetch"]
               /\ UNCHANGED <<jobs, fs>>
    /\ UNCHANGED <<poolKind, configInit, jobQueue, handled>>
    /\ UNCHANGED actorVars
    /\ UNCHANGED <<route, bcast>>

\* YtDownloader::download: the failures of the fetch tool and of parse_output
FetchErrors == {"CommandError", "DownloadError", "FilenameError", "DurationParseError"}

\* process_video line 192: the fetch; get_binary_path needs the config dir
FetchThenManifest(w) ==
    /\ worker[w].pc = "fetch"
    /\ configInit
    /\ LET m == worker[w].job
       IN \/ /\ fs' = [fs EXCEPT ![m.name].dir = TRUE]
             /\ worker' = [worker EXCEPT ![w].pc = "manifest"]
             /\ jobs' = jobs
          \/ \E e \in FetchErrors :
                /\ fs' = [fs EXCEPT ![m.name].dir = TRUE, ![m.name].status = "plain"]
                /\ Finish(w, e)
    /\ UNCHANGED <<poolKind, configInit, jobQueue, handled>>
    /\ UNCHANGED actorVars
    /\ UNCHANGED <<route, bcast>>
Fetch(w) ==
    /\ worker[w].pc = "fetch"
    /\ configInit
    /\ LET m == worker[w].job
       IN \/ /\ fs' = [fs EXCEPT ![m.name].dir = TRUE]
             /\ worker' = [worker EXCEPT ![w].pc = "manifest"]
             /\ jobs' = jobs
          \/ \E e \in FetchErrors, d \in {fs[m.name].dir, TRUE} :
                /\ fs' = [fs EXCEPT ![m.name].dir = d]
                /\ Finish(w, e)
    /\ UNCHANGED <<poolKind, configInit, jobQueue, handled>>
    /\ UNCHANGED actorVars
    /\ UNCHANGED <<route, bcast>>

\* process_video lines 200-239: status.json is created and written
WriteManifest(w) ==
    /\ worker[w].pc = "manifest"
    /\ LET m == worker[w].job
       IN \/ /\ fs[m.name].dir
             /\ fs' = [fs EXCEPT ![m.name].status =
                        IF m.is_key_changeable THEN "pitch" ELSE "plain"]
             /\ worker' = [worker EXCEPT ![w].pc = "transcode"]
             /\ jobs' = jobs
          \/ /\ fs[m.name].dir
             /\ fs' = [fs EXCEPT ![m.name].status = "corrupt"]
             /\ Finish(w, "PitchShiftError:write_status")
          \/ /\ fs' = fs
             /\ Finish(w, "PitchShiftError:create_status")
    /\ UNCHANGED <<poolKind, configInit, jobQueue, handled>>
    /\ UNCHANGED actorVars
    /\ UNCHANGED <<route, bcast>>

\* process_video lines 249-293: DashProcessor::execute
TranscodeFailureCleans(w) ==
    /\ worker[w].pc = "transcode"
    /\ LET m == worker[w].job
       IN \/ /\ fs' = [fs EXCEPT ![m.name].chunk = fs[m.name].dir]
             /\ Finish(w, "Ok:path")
          \/ /\ fs' = [fs EXCEPT ![m.name] = NoDir]
             /\ Finish(w, "PitchShiftError:dash")
    /\ UNCHANGED <<poolKind, configInit, jobQueue, handled>>
    /\ UNCHANGED actorVars
    /\ UNCHANGED <<route, bcast>>
Transcode(w) ==
    /\ worker[w].pc = "transcode"
    /\ LET m == worker[w].job
       IN \/ /\ fs' = [fs EXCEPT ![m.name].chunk = fs[m.name].dir]
             /\ Finish(w, "Ok:path")
          \/ /\ fs' = fs
             /\ Finish(w, "PitchShiftError:dash")
    /\ UNCHANGED <<poolKind, configInit, jobQueue, handled>>
    /\ UNCHANGED actorVars
    /\ UNCHANGED <<route, bcast>>

\* ---------------------------------------- VideoSearcherActor::handle_message
SearchErrors == {"ExecutionError", "JsonParseError", "MissingFields"}

Search(w) ==
    /\ worker[w].pc = "search"
    /\ configInit
    /\ \E v \in {"Ok:results"} \cup SearchErrors : Finish(w, v)
    /\ UNCHANGED <<poolKind, configInit, jobQueue, fs, handled>>
    /\ UNCHANGED actorVars
    /\ UNCHANGED <<route, bcast>>

\* --------------------------------------------------------------- panics
\* get_binary_path: CONFIG_DIR.get().expect(..) panics when the config dir is not
\* set. Nothing in the worker's loop catches an unwind: the task ends, the message
\* and its respond_to are dropped, and the worker's Receiver with them.
BinaryPathPanic(w) ==
    /\ worker[w].pc \in {"fetch", "search"}
    /\ ~configInit
    /\ jobs' = [jobs EXCEPT ![worker[w].job.id].lost = TRUE]
    /\ worker' = [worker EXCEPT ![w] = [pc |-> "dead", job |-> NoJob]]
    /\ UNCHANGED <<poolKind, configInit, jobQueue, fs, handled>>
    /\ UNCHANGED actorVars
    /\ UNCHANGED <<route, bcast>>

\* recv.await.expect("Actor task has been killed"): the oneshot was dropped unsent
CallerRecvError ==
    \E j \in JobIds :
        /\ jobs[j].pc = "waiting"
        /\ jobs[j].sent = 0
        /\ jobs[j].lost
        /\ jobs' = [jobs EXCEPT ![j].pc = "panicked"]
        /\ UNCHANGED <<poolKind, configInit, jobQueue, worker, fs, handled>>
        /\ UNCHANGED actorVars
        /\ UNCHANGED <<route, bcast>>

\* (A send on the closed channel, after every worker has ended, returns the message
\* to the caller, which drops it; five panics are beyond the jobs submitted here.)

\* ------------------------------------------------- the broadcast channel
\* tokio::sync::broadcast as create_router_with_state builds it: channel(10). The
\* channel rounds the capacity it is given up to the next power of two and keeps
\* that many values; a slot holds the position of the value last written to it.
RECURSIVE PowerOfTwoFrom(_, _)
PowerOfTwoFrom(p, n) == IF p >= n THEN p ELSE PowerOfTwoFrom(2 * p, n)
SameCapacity(n) == n
NextPowerOfTwo(n) == PowerOfTwoFrom(1, n)

BufferLen == NextPowerOfTwo(BroadcastCapacity)
Slots == 0..(BufferLen - 1)
Streams == 1..NumStreams

NoEvent == [type |-> "none"]
\* a stream that no client holds
NoStream == [active |-> FALSE, next |-> 0, since |-> 0, got |-> <<>>,
             behind |-> 0, missed |-> 0]
\* sse_broadcaster.subscribe(): the receiver starts at the channel's tail
NewStream(tail) == [NoStream EXCEPT !.active = TRUE, !.next = tail, !.since = tail]

NewBroadcast ==
    [tail |-> 0,                      \* position of the next value sent
     buffer |-> [i \in Slots |-> [pos |-> i - BufferLen, val |-> NoEvent]],
     log |-> <<>>,                    \* history: every value stored, in order
     streams |-> [s \in Streams |-> NoStream]]
                                      \* per SSE response: its receiver's cursor, and
                                      \* history: since = the tail when it subscribed,
                                      \* got = the events it yielded, behind = the most
                                      \* it has been behind, missed = events skipped

Max(a, b) == IF a > b THEN a ELSE b

\* Sender::send with a receiver alive: the value goes to slot tail % len
BroadcastSend(b, e) ==
    [b EXCEPT !.tail = @ + 1,
              !.buffer[b.tail % BufferLen] = [pos |-> b.tail, val |-> e],
              !.log = Append(@, e),
              !.streams = [s \in Streams |->
                    IF b.streams[s].active
                    THEN [b.streams[s] EXCEPT
                            !.behind = Max(@, b.tail + 1 - b.streams[s].next)]
                    ELSE b.streams[s]]]

\* the events of one handled message, sent in their order
RECURSIVE BroadcastSendAll(_, _)
BroadcastSendAll(b, events) ==
    IF events = <<>> THEN b
    ELSE BroadcastSendAll(BroadcastSend(b, Head(events)), Tail(events))

\* Sender::send is not async: it stores the value and returns, whatever the
\* receivers' cursors
SendWaitsForReceivers(b) ==
    \A s \in Streams :
        b.streams[s].active => b.tail - b.streams[s].next < BufferLen
SendReady(b) == TRUE

\* ------------------------------------------------------------ specifications
\* SongActor::new, SongActorHandle::new, and the router's broadcast channel whose
\* first receiver is dropped at once
InitActor ==
    /\ song_deque = <<>>
    /\ current_key = 0
    /\ mailbox = <<>>
    /\ callerPc = [c \in Callers |-> "idle"]
    /\ response = NoResponse
    /\ subscribers = 0
    /\ published = <<>>
    /\ shadow_deque = <<>>
    /\ route = <<>>
    /\ bcast = NewBroadcast

\* what ./assets may hold of a song from an earlier run of the server
DirStates ==
    {NoDir} \cup [dir : {TRUE}, status : {"none", "corrupt", "plain", "pitch"},
                  chunk : BOOLEAN]

\* a pool as its handle's new() leaves it, over the assets of earlier runs
InitPoolOf(kinds, configs) ==
    /\ poolKind \in kinds
    /\ configInit \in configs
    /\ jobQueue = <<>>
    /\ jobs = <<>>
    /\ worker = [w \in 1..NumConsumers(poolKind) |-> [pc |-> "recv", job |-> NoJob]]
    /\ fs \in [PoolNames -> DirStates]
    /\ handled = 0

\* main: init_config_dir (line 161) comes before create_router_with_state (line 182)
Init ==
    /\ InitActor
    /\ InitPoolOf({"dl"}, {TRUE})
    /\ fs = [n \in PoolNames |-> NoDir]

\* the actor driven by one caller at a time, with every request on the queue
Next ==
    \/ queue_song(1, UUIDs, Names)
    \/ update_song_status(1, UUIDs)
    \/ remove_song(1, UUIDs)
    \/ pop_song(1)
    \/ reposition_song(1, UUIDs)
    \/ current_song(1)
    \/ get_queue(1)
    \/ CallerReturn(1)
    \/ run_song_actor
    \/ Subscribe
    \/ Unsubscribe

Spec == Init /\ [][Next]_vars

\* the actor driven by one caller at a time, with every request of the handle
NextKey ==
    \/ queue_song(1, SmallUuids, SmallNames)
    \/ update_song_status(1, SmallUuids)
    \/ remove_song(1, SmallUuids)
    \/ pop_song(1)
    \/ reposition_song(1, SmallUuids)
    \/ current_song(1)
    \/ get_queue(1)
    \/ key_up(1)
    \/ key_down(1)
    \/ get_key(1)
    \/ CallerReturn(1)
    \/ run_song_actor

SpecKey == Init /\ [][NextKey]_vars

\* the actor under concurrent callers issuing the requests that change the queue
NextRace ==
    \/ \E c \in Callers : queue_song(c, SmallUuids, SmallNames)
    \/ \E c \in Callers : update_song_status(c, SmallUuids)
    \/ \E c \in Callers : remove_song(c, SmallUuids)
    \/ \E c \in Callers : pop_song(c)
    \/ \E c \in Callers : reposition_song(c, SmallUuids)
    \/ \E c \in Callers : CallerReturn(c)
    \/ run_song_actor

SpecRace == Init /\ [][NextRace]_vars

\* the actor under concurrent callers whose requests can fail in each of the three
\* ways; the actor's task is polled whenever it has a message (weak fairness)
NextErrors ==
    \/ \E c \in Callers : queue_song(c, SmallUuids, SmallNames)
    \/ \E c \in Callers : update_song_status(c, SmallUuids)
    \/ \E c \in Callers : pop_song(c)
    \/ \E c \in Callers : key_up(c)
    \/ \E c \in Callers : CallerReturn(c)
    \/ run_song_actor

SpecErrors == Init /\ [][NextErrors]_vars /\ WF_vars(run_song_actor)

\* a pool of the server as main builds it
InitPool == InitActor /\ InitPoolOf({"dl", "search"}, {TRUE})

NextPool ==
    \/ download_video(MaxJobs, PoolNames, BOOLEAN)
    \/ search_videos(MaxJobs)
    \/ CallerReceive
    \/ \E w \in Workers : WorkerRecv(w, MaxJobs)
    \/ \E w \in Workers : CheckCache(w)
    \/ \E w \in Workers : ClearStale(w)
    \/ \E w \in Workers : Fetch(w)
    \/ \E w \in Workers : WriteManifest(w)
    \/ \E w \in Workers : Transcode(w)
    \/ \E w \in Workers : Search(w)

SpecPool == InitPool /\ [][NextPool]_vars

\* a pool built without init_config_dir, as the handles alone allow
InitPoolAnyConfig == InitActor /\ InitPoolOf({"dl", "search"}, BOOLEAN)

NextPoolAnyConfig ==
    \/ NextPool
    \/ \E w \in Workers : BinaryPathPanic(w)
    \/ CallerRecvError

SpecPoolAnyConfig == InitPoolAnyConfig /\ [][NextPoolAnyConfig]_vars

\* a pool under a burst of more submissions than the channel holds
BurstJobs == ChannelCapacity + MaxBurstOver

NextBurst ==
    \/ download_video(BurstJobs, {1}, {FALSE})
    \/ search_videos(BurstJobs)
    \/ SendResume
    \/ CallerReceive
    \/ \E w \in Workers : WorkerRecv(w, MaxBurstHandled)
    \/ \E w \in Workers : CheckCache(w)
    \/ \E w \in Workers : ClearStale(w)
    \/ \E w \in Workers : Fetch(w)
    \/ \E w \in Workers : WriteManifest(w)
    \/ \E w \in Workers : Transcode(w)
    \/ \E w \in Workers : Search(w)

SpecBurst == InitPool /\ [][NextBurst]_vars

\* a pool whose callers may stop waiting; a worker that can take a step is polled
\* and the external tools return (weak fairness of the workers' steps)
WorkerStep ==
    \E w \in Workers :
        \/ WorkerRecv(w, MaxJobs)
        \/ CheckCache(w) \/ ClearStale(w) \/ Fetch(w) \/ WriteManifest(w)
        \/ Transcode(w) \/ Search(w)

NextAbandon ==
    \/ download_video(MaxJobs, PoolNames, {FALSE})
    \/ search_videos(MaxJobs)
    \/ CallerReceive
    \/ CallerGone
    \/ WorkerStep

SpecAbandon == InitPool /\ [][NextAbandon]_vars /\ WF_vars(WorkerStep)

\* a pool given more jobs than it has workers, each job of the quickest kind: a
\* download of a song whose asset is complete, a search that succeeds
FullJobs == NumConsumers(poolKind) + MaxOverWorkers

InitFull ==
    /\ InitPool
    /\ fs = [n \in PoolNames |-> [dir |-> TRUE, status |-> "plain", chunk |-> TRUE]]

\* The search jobs are all alike and so are the workers: which of the running
\* searches returns first changes the state only by a renaming of jobs and
\* workers, so the one started first stands for whichever returns.
SearchOldestReturns(w) ==
    /\ \A v \in Workers : worker[v].pc = "search" => worker[v].job.id >= worker[w].job.id
    /\ Search(w)
    /\ \A j \in JobIds : jobs'[j].resp.val \notin SearchErrors

NextFull ==
    \/ download_video(FullJobs, PoolNames, {FALSE})
    \/ search_videos(FullJobs)
    \/ \E w \in Workers : WorkerRecv(w, FullJobs)
    \/ \E w \in Workers : CheckCache(w)
    \/ \E w \in Workers : SearchOldestReturns(w)

SpecFull == InitFull /\ [][NextFull]_vars

\* ============================================================ karaoke route
\* routes::karaoke::queue_song, one task per request. Song::new draws a fresh
\* Uuid::new_v4 for every request: the request's number stands for it.
RouteIds == 1..NumRequests
\* the caller of the admin and play_next routes
AdminCaller == NumRequests + 1
RouteCallers == 1..AdminCaller

NewRoute ==
    [pc |-> "new",        \* "new" | "queueing" | "rejected" | "spawned" | "downloading"
                          \* | "got" | "updating" | "done" | "panicked"
     name |-> 0,          \* payload.name
     reply |-> "none",    \* what the actor answered to the call it is waiting in
     job |-> 0,           \* the download job its spawned task submitted
     submitted |-> 0,     \* download jobs submitted for it
     result |-> "none",   \* what download_video returned
     updates |-> <<>>]    \* the UpdateSongStatus messages sent for it

\* the match on download_video's result: Ok(_) => Success, Err(_) => Failed
OkValues == {"Ok:success", "Ok:path"}
StatusOfAlwaysSuccess(v) == "Success"
StatusOf(v) == IF v \in OkValues THEN "Success" ELSE "Failed"

\* lines 32-40: the song is built InProgress and sent to the actor
RouteQueueSong(r) ==
    /\ route[r].pc = "new"
    /\ \E n \in PoolNames :
          /\ SendMsg(r, Msg("QueueSong", r, r, n, "InProgress", NoArg))
          /\ route' = [route EXCEPT ![r].pc = "queueing", ![r].name = n]
    /\ UNCHANGED bcast

\* the actor's turn: the answer goes to the oneshot of the task that asked
RouteActorTurn ==
    /\ HandleNext
    /\ LET m == mailbox[NextMessageIndex(mailbox)]
       IN route' = IF m.from \in RouteIds
                   THEN [route EXCEPT ![m.from].reply =
                            HandleReply(current_key, song_deque, m).tag]
                   ELSE route
    /\ UNCHANGED bcast

\* the request resumes with the actor's answer: Ok(_) spawns the download task
\* (line 44), Err(_) only logs; after update_song_status the task ends
RouteResume(r) ==
    /\ route[r].pc \in {"queueing", "updating"}
    /\ Resume(r)
    /\ route' = [route EXCEPT ![r].pc =
                    IF route[r].pc = "updating" THEN "done"
                    ELSE IF route[r].reply = "Ok" THEN "spawned" ELSE "rejected"]
    /\ UNCHANGED bcast

\* lines 45-51: the spawned task calls download_video
RouteDownload(r) ==
    /\ route[r].pc = "spawned"
    /\ SubmitJob(JobMsg(Len(jobs) + 1, route[r].name, FALSE))
    /\ route' = [route EXCEPT ![r].pc = "downloading", ![r].job = Len(jobs) + 1,
                              ![r].submitted = @ + 1]
    /\ UNCHANGED bcast

\* download_video returns the value sent on the job's oneshot
RouteReceive(r) ==
    /\ route[r].pc = "downloading"
    /\ LET j == route[r].job
       IN /\ jobs[j].pc = "waiting"
          /\ jobs[j].sent > 0
          /\ jobs' = [jobs EXCEPT ![j].pc = "done"]
          /\ route' = [route EXCEPT ![r].pc = "got", ![r].result = jobs[j].resp.val]
    /\ UNCHANGED <<poolKind, configInit, jobQueue, worker, fs, handled>>
    /\ UNCHANGED actorVars
    /\ UNCHANGED bcast

\* lines 56-58 and 88-90: update_song_status with Success or Failed
RouteUpdateByName(r) ==
    /\ route[r].pc = "got"
    /\ LET same == {i \in 1..Len(song_deque) : song_deque[i].name = route[r].name}
           u == IF same = {} THEN r ELSE song_deque[CHOOSE i \in same : TRUE].uuid
       IN /\ SendMsg(r, Msg("UpdateSongStatus", r, u, NoArg,
                            StatusOf(route[r].result), NoArg))
          /\ route' = [route EXCEPT ![r].pc = "updating",
                          ![r].updates = Append(@, [uuid |-> u,
                                              status |-> StatusOf(route[r].result)])]
    /\ UNCHANGED bcast
RouteUpdate(r) ==
    /\ route[r].pc = "got"
    /\ SendMsg(r, Msg("UpdateSongStatus", r, r, NoArg, StatusOf(route[r].result), NoArg))
    /\ route' = [route EXCEPT ![r].pc = "updating",
                    ![r].updates = Append(@, [uuid |-> r,
                                              status |-> StatusOf(route[r].result)])]
    /\ UNCHANGED bcast

\* download_video's recv.await.expect panics when the job's oneshot was dropped:
\* the spawned task ends there
RoutePanic(r) ==
    /\ route[r].pc = "downloading"
    /\ LET j == route[r].job
       IN /\ jobs[j].pc = "waiting"
          /\ jobs[j].sent = 0
          /\ jobs[j].lost
          /\ jobs' = [jobs EXCEPT ![j].pc = "panicked"]
    /\ route' = [route EXCEPT ![r].pc = "panicked"]
    /\ UNCHANGED <<poolKind, configInit, jobQueue, worker, fs, handled>>
    /\ UNCHANGED actorVars
    /\ UNCHANGED bcast

\* the server with its actor and its download pool, before any request
InitRouteOf(configs) ==
    /\ song_deque = <<>>
    /\ current_key = 0
    /\ mailbox = <<>>
    /\ callerPc = [c \in RouteCallers |-> "idle"]
    /\ response = NoResponse
    /\ subscribers = 0
    /\ published = <<>>
    /\ shadow_deque = <<>>
    /\ InitPoolOf({"dl"}, configs)
    /\ fs = [n \in PoolNames |-> NoDir]
    /\ route = [r \in RouteIds |-> NewRoute]
    /\ bcast = NewBroadcast

InitRoute == InitRouteOf({TRUE})

\* queue_song requests, with play_next and remove requests between them
NextRoute ==
    \/ \E r \in RouteIds : RouteQueueSong(r)
    \/ RouteActorTurn
    \/ \E r \in RouteIds : RouteResume(r)
    \/ \E r \in RouteIds : RouteDownload(r)
    \/ \E r \in RouteIds : RouteReceive(r)
    \/ \E r \in RouteIds : RouteUpdate(r)
    \/ pop_song(AdminCaller)
    \/ remove_song(AdminCaller, RouteIds)
    \/ CallerReturn(AdminCaller)
    \/ \E w \in Workers : WorkerRecv(w, NumRequests)
    \/ \E w \in Workers : CheckCache(w)
    \/ \E w \in Workers : ClearStale(w)
    \/ \E w \in Workers : Fetch(w)
    \/ \E w \in Workers : WriteManifest(w)
    \/ \E w \in Workers : Transcode(w)

SpecRoute == InitRoute /\ [][NextRoute]_vars

\* the same in a process whose config dir was never set
InitRouteAnyConfig == InitRouteOf(BOOLEAN)

NextRouteAnyConfig ==
    \/ NextRoute
    \/ \E w \in Workers : BinaryPathPanic(w)
    \/ \E r \in RouteIds : RoutePanic(r)

SpecRouteAnyConfig == InitRouteAnyConfig /\ [][NextRouteAnyConfig]_vars

\* ============================================================ runtime threads
\* #[tokio::main] runs every spawned task on one of its worker threads. A pool
\* worker's handle_message has no await that suspends: from recv to respond_to.send
\* it stays on its thread, and std::process::Command's output() / status() hold that
\* thread for as long as the external process runs.
InExternalProcess(w) == worker[w].pc \in {"fetch", "transcode", "search"}
OnThread(w) == worker[w].pc \notin {"recv", "dead"}
ThreadFree == Cardinality({w \in Workers : OnThread(w)}) < NumThreads

\* a task that is not running is polled only when a worker thread is free
run_song_actor_polled == ThreadFree /\ run_song_actor
WorkerRecvPolled(w) == ThreadFree /\ WorkerRecv(w, MaxJobs)

\* the actor and one pool sharing the runtime's worker threads
NextThreads ==
    \/ ThreadFree /\ download_video(MaxJobs, PoolNames, {FALSE})
    \/ ThreadFree /\ search_videos(MaxJobs)
    \/ ThreadFree /\ CallerReceive
    \/ ThreadFree /\ pop_song(1)
    \/ ThreadFree /\ get_queue(1)
    \/ ThreadFree /\ CallerReturn(1)
    \/ run_song_actor_polled
    \/ \E w \in Workers : WorkerRecvPolled(w)
    \/ \E w \in Workers : CheckCache(w)
    \/ \E w \in Workers : ClearStale(w)
    \/ \E w \in Workers : Fetch(w)
    \/ \E w \in Workers : WriteManifest(w)
    \/ \E w \in Workers : Transcode(w)
    \/ \E w \in Workers : Search(w)

SpecThreads == InitPool /\ [][NextThreads]_vars

\* ============================================================ SSE streams
\* the actor's turn with the channel in view: the events of the handled message go
\* to the channel, unless no receiver is alive (send returns Err and stores nothing)
run_song_actor_sse ==
    /\ SendReady(bcast)
    /\ HandleNext
    /\ LET m == mailbox[NextMessageIndex(mailbox)]
           events == HandleEvents(current_key, song_deque, m)
       IN bcast' = IF PublishFails(events) THEN bcast
                   ELSE BroadcastSendAll(bcast, events)
    /\ UNCHANGED route

\* routes::sse::sse: a client opens the event stream
sse(s) ==
    /\ ~bcast.streams[s].active
    /\ bcast' = [bcast EXCEPT !.streams[s] = NewStream(bcast.tail)]
    /\ subscribers' = subscribers + 1
    /\ UNCHANGED <<song_deque, current_key, mailbox, callerPc, response, published,
                   shadow_deque>>
    /\ UNCHANGED poolVars
    /\ UNCHANGED route

\* one recv of the BroadcastStream. The slot at the cursor holds the value of that
\* position: it is yielded. It holds the value of one lap before: nothing is there
\* yet, the stream is pending. Otherwise the value was overwritten: recv returns
\* Lagged and moves the cursor to the oldest value kept; filter_map drops the Err
\* and the stream goes on.
StreamNext(s) ==
    /\ bcast.streams[s].active
    /\ LET st == bcast.streams[s]
           slot == bcast.buffer[st.next % BufferLen]
           oldest == bcast.tail - BufferLen
       IN IF slot.pos = st.next
          THEN bcast' = [bcast EXCEPT !.streams[s].next = @ + 1,
                            !.streams[s].got =
                                Append(@, [pos |-> st.next, val |-> slot.val])]
          ELSE /\ slot.pos + BufferLen # st.next
               /\ bcast' = [bcast EXCEPT !.streams[s].next = oldest,
                                !.streams[s].missed = @ + (oldest - st.next)]
    /\ UNCHANGED actorVars
    /\ UNCHANGED poolVars
    /\ UNCHANGED route

\* the client goes away: the response and its receiver are dropped
StreamDrop(s) ==
    /\ bcast.streams[s].active
    /\ bcast' = [bcast EXCEPT !.streams[s] = NoStream]
    /\ subscribers' = subscribers - 1
    /\ UNCHANGED <<song_deque, current_key, mailbox, callerPc, response, published,
                   shadow_deque>>
    /\ UNCHANGED poolVars
    /\ UNCHANGED route

\* play_next requests, each publishing the queue, with readers of the event stream
NextSse ==
    \/ (bcast.tail + Len(mailbox) < MaxEvents /\ pop_song(1))
    \/ get_queue(1)
    \/ CallerReturn(1)
    \/ run_song_actor_sse
    \/ \E s \in Streams : sse(s)
    \/ \E s \in Streams : StreamNext(s)
    \/ \E s \in Streams : StreamDrop(s)

SpecSse == Init /\ [][NextSse]_vars

\* ================================================================== claims
\* the queue after the messages of mb, handled one at a time in their order
RECURSIVE HandleAll(_, _)
HandleAll(q, mb) ==
    IF mb = <<>> THEN q ELSE HandleAll(HandleDeque(q, Head(mb)), Tail(mb))

\* the step of run_song_actor that handles the message at the front of the mailbox
Handles(type) ==
    /\ Len(mailbox) > 0
    /\ mailbox' = Tail(mailbox)
    /\ Head(mailbox).type = type

\* C1: under concurrent callers the queue is always the one that the accepted
\* messages yield when applied one at a time in the order of their acceptance into
\* the mailbox: the messages still in the mailbox, applied in order to the actor's
\* queue, give that queue, and with the mailbox empty the two are equal.
C1_Serializable == HandleAll(song_deque, mailbox) = shadow_deque

\* two callers have requests pending whose order decides the queue, after the
\* actor has already changed the queue
C1_Witness ==
    /\ Len(mailbox) = 2
    /\ mailbox[1].from # mailbox[2].from
    /\ Len(song_deque) > 0
    /\ HandleAll(song_deque, mailbox) # HandleAll(song_deque, <<mailbox[2], mailbox[1]>>)

\* C2: a QueueSong whose uuid or whose name is that of a queued song is answered
\* SongAlreadyQueued and leaves the queue as it was.
C2_DuplicateRejected ==
    [][(/\ Handles("QueueSong")
        /\ \E i \in 1..Len(song_deque) :
              \/ song_deque[i].uuid = Head(mailbox).uuid
              \/ song_deque[i].name = Head(mailbox).name)
       => (/\ response'.tag = "SongAlreadyQueued"
           /\ response'.to = Head(mailbox).from
           /\ song_deque' = song_deque)]_vars

\* a song was rejected although no queued song has its name: its uuid alone matched
C2_Witness ==
    /\ response.tag = "SongAlreadyQueued"
    /\ Len(song_deque) > 0
    /\ \A i \in 1..Len(song_deque) : song_deque[i].name # response.name

\* C3: no two queued songs have the same uuid, and no two the same name.
C3_NoDuplicates ==
    \A i, j \in 1..Len(song_deque) :
        i # j => /\ song_deque[i].uuid # song_deque[j].uuid
                 /\ song_deque[i].name # song_deque[j].name

\* a full queue whose songs were enqueued, moved and updated
C3_Witness ==
    /\ Len(song_deque) = 3
    /\ song_deque[1].uuid > song_deque[2].uuid
    /\ \E i \in 1..3 : song_deque[i].status = "Failed"

\* C4: current_key is always within [-3, 3].
C4_KeyInRange == current_key \in KeyLowerBound..KeyUpperBound

\* the key was raised to the upper bound
C4_Witness ==
    /\ current_key = KeyUpperBound
    /\ response.tag = "OkKey"
    /\ response.key = KeyUpperBound

\* C5: KeyUp at +3 and KeyDown at -3 are answered with the error and leave
\* current_key as it was; elsewhere they change it by one, answer the new value and
\* publish a KeyChange carrying it.
C5_KeyStep ==
    [][/\ Handles("KeyUp") =>
            IF current_key = 3
            THEN /\ response'.tag = "KeyUpFailed"
                 /\ current_key' = current_key
            ELSE /\ current_key' = current_key + 1
                 /\ response'.tag = "OkKey"
                 /\ response'.key = current_key + 1
                 /\ published' = <<KeyChange(current_key + 1)>>
       /\ Handles("KeyDown") =>
            IF current_key = -3
            THEN /\ response'.tag = "KeyDownFailed"
                 /\ current_key' = current_key
            ELSE /\ current_key' = current_key - 1
                 /\ response'.tag = "OkKey"
                 /\ response'.key = current_key - 1
                 /\ published' = <<KeyChange(current_key - 1)>>]_vars

\* a KeyDown was refused at the lower bound
C5_Witness ==
    /\ response.tag = "KeyDownFailed"
    /\ current_key = KeyLowerBound
    /\ published = <<>>

\* C6: after a PopSong current_key is 0, whatever it was and whether or not a song
\* was queued.
C6_PopResetsKey == [][Handles("PopSong") => current_key' = 0]_vars

\* a PopSong found the queue empty
C6_Witness ==
    /\ response.tag = "NoSong"
    /\ current_key = 0
    /\ published = <<QueueUpdated(<<>>)>>

\* the jobs in the channel, those a send still holds, those a worker holds, and
\* those answered
QueuedIds == {jobQueue[i].id : i \in 1..Len(jobQueue)}
SuspendedIds == {j \in JobIds : jobs[j].pc = "suspended"}
HeldIds == {worker[w].job.id : w \in {v \in Workers : worker[v].pc \notin {"recv", "dead"}}}
AnsweredIds == {j \in JobIds : jobs[j].sent > 0}

\* C7: every job is dequeued by exactly one worker and its caller is sent exactly
\* one response, computed for that job: never two workers on one job, never two
\* values on one respond_to, never another job's value, and a job that is neither
\* with its sender, in the channel nor with a worker has had its one worker and
\* its one response.
C7_OneWorkerOneResponse ==
    \A j \in JobIds :
        /\ Cardinality(jobs[j].by) <= 1
        /\ Cardinality({w \in Workers : worker[w].job.id = j}) <= 1
        /\ jobs[j].sent <= 1
        /\ jobs[j].sent = 1 => jobs[j].resp.job = j
        /\ j \notin (QueuedIds \cup SuspendedIds \cup HeldIds) =>
              /\ Cardinality(jobs[j].by) = 1
              /\ jobs[j].sent = 1
        /\ jobs[j].pc = "done" => jobs[j].sent = 1

\* two callers have their responses from two workers that ran at the same time,
\* while a third job is still being handled
C7_Witness ==
    \E i, j, k \in JobIds :
        /\ jobs[i].pc = "done" /\ jobs[j].pc = "done"
        /\ jobs[i].by # jobs[j].by
        /\ k \in HeldIds

\* the channel holds at most its capacity
C8_QueueBounded == Len(jobQueue) <= 100

\* every job submitted is in exactly one place
C8_NoJobDropped ==
    /\ Cardinality(QueuedIds) = Len(jobQueue)
    /\ QueuedIds \cup SuspendedIds \cup HeldIds \cup AnsweredIds = JobIds
    /\ QueuedIds \cap (SuspendedIds \cup HeldIds \cup AnsweredIds) = {}
    /\ SuspendedIds \cap (HeldIds \cup AnsweredIds) = {}
    /\ HeldIds \cap AnsweredIds = {}
    /\ \A j \in SuspendedIds : jobs[j].msg.id = j

\* a submission suspends only at a full channel and is resumed into the channel
C8_SuspendResume ==
    /\ Len(jobs') > Len(jobs) =>
          IF Len(jobQueue) = 100
          THEN jobs'[Len(jobs')].pc = "suspended" /\ jobQueue' = jobQueue
          ELSE jobs'[Len(jobs')].pc = "waiting" /\ Len(jobQueue') = Len(jobQueue) + 1
    /\ \A j \in JobIds :
          jobs[j].pc = "suspended" /\ jobs'[j].pc # "suspended" =>
              /\ Len(jobQueue) < 100
              /\ jobQueue' = Append(jobQueue, jobs[j].msg)
              /\ jobs'[j].pc = "waiting"

\* C8: the channel never holds more than 100 jobs; a submission is suspended only
\* when it finds the channel full, and is accepted, unchanged, once there is room;
\* every job submitted is with its sender, in the channel, with a worker or
\* answered: none is dropped.
C8_Backpressure ==
    /\ [](C8_QueueBounded /\ C8_NoJobDropped)
    /\ [][C8_SuspendResume]_vars

\* a submission that found the channel full has been accepted after a worker
\* dequeued, and the channel is full again
C8_Witness ==
    /\ Len(jobQueue) = 100
    /\ \E j \in JobIds : jobs[j].held /\ j \in QueuedIds
    /\ handled > 0

PipelineErrors ==
    {"PitchShiftError:clear", "PitchShiftError:create_status",
     "PitchShiftError:write_status", "PitchShiftError:dash"} \cup FetchErrors

\* C10: an error of a pipeline step is sent to the caller of the job it arose in,
\* and the worker that sent it is back in its loop, no longer holding that job.
C10_ErrorAnswered ==
    \A j \in JobIds :
        jobs[j].resp.val \in PipelineErrors =>
            /\ jobs[j].sent = 1
            /\ jobs[j].resp.job = j
            /\ \A w \in jobs[j].by :
                  /\ worker[w].pc # "dead"
                  /\ worker[w].job.id # j

\* a worker answered a transcoding error and then answered a later job
C10_Witness ==
    \E i, j \in JobIds :
        /\ i < j
        /\ jobs[i].resp.val = "PitchShiftError:dash"
        /\ jobs[j].by = jobs[i].by
        /\ jobs[j].sent = 1
        /\ jobs[j].resp.val \notin PipelineErrors

\* C11: a request whose Enqueue was accepted submits exactly one download job, for
\* its own song name, and once the job has returned sends exactly one
\* UpdateSongStatus, for its own uuid, with Success after Ok and Failed after Err;
\* a request whose Enqueue was rejected submits no job and sends no update.
C11_OneJobOneUpdate ==
    \A r \in RouteIds :
        /\ route[r].pc \in {"new", "queueing", "rejected", "spawned"} =>
              /\ route[r].submitted = 0
              /\ route[r].updates = <<>>
        /\ route[r].pc \in {"downloading", "got", "updating", "done"} =>
              /\ route[r].submitted = 1
              /\ route[r].reply # "SongAlreadyQueued"
              /\ \A q \in RouteIds : q # r => route[q].job # route[r].job
        /\ route[r].pc \in {"downloading", "got"} => route[r].updates = <<>>
        /\ route[r].pc \in {"updating", "done"} =>
              /\ jobs[route[r].job].sent = 1
              /\ route[r].updates =
                    <<[uuid |-> r,
                       status |-> IF jobs[route[r].job].resp.val \in OkValues
                                  THEN "Success" ELSE "Failed"]>>

\* one request was rejected while the other was accepted, downloaded with an
\* error, and had its Failed update handled
C11_Witness ==
    \E r, q \in RouteIds :
        /\ route[r].pc = "rejected"
        /\ route[q].pc = "done"
        /\ route[q].updates = <<[uuid |-> q, status |-> "Failed"]>>

C13_NoSameNameRace ==
    \A v, w \in Workers :
        (/\ v # w
         /\ worker[v].pc \notin {"recv", "dead"}
         /\ worker[w].pc \notin {"recv", "dead"})
        => worker[v].job.name # worker[w].job.name

\* C14: whatever the number of pool workers inside an external fetch, transcode
\* or search process, a message pending in the actor's mailbox can be handled.
C14_ActorNotBlocked ==
    (/\ Len(mailbox) > 0
     /\ \E w \in Workers : InExternalProcess(w))
    => ENABLED run_song_actor_polled

\* the queue without the song of the given uuid
Without(q, id) == SelectSeq(q, LAMBDA s : s.uuid # id)
Queued(q, id) == \E i \in 1..Len(q) : q[i].uuid = id

C18_RemoveById ==
    [][Handles("RemoveSong") =>
         /\ song_deque' = Without(song_deque, Head(mailbox).uuid)
         /\ ~Queued(song_deque, Head(mailbox).uuid) => song_deque' = song_deque
         /\ response'.tag = "Unit"
         /\ published' = <<QueueUpdated(song_deque')>>]_vars

\* a RemoveSong left the first and the third of the songs enqueued
C18_Witness ==
    /\ response.tag = "Unit"
    /\ Len(song_deque) = 2
    /\ song_deque[1].uuid = 1
    /\ song_deque[2].uuid = 3
    /\ published = <<QueueUpdated(song_deque)>>

\* C19: Reposition of a queued song answers Ok and gives the queue with the song
\* taken out and put back at index min(position, length after removal); a position
\* at or beyond the queue's length puts it at the tail.
C19_RepositionClamped ==
    [][(/\ Handles("Reposition")
        /\ Queued(song_deque, Head(mailbox).uuid))
       => LET id == Head(mailbox).uuid
              rest == Without(song_deque, id)
              idx == IF Head(mailbox).position <= Len(rest)
                     THEN Head(mailbox).position ELSE Len(rest)
          IN /\ response'.tag = "Ok"
             /\ Len(song_deque') = Len(song_deque)
             /\ song_deque'[idx + 1].uuid = id
             /\ Without(song_deque', id) = rest
             /\ Head(mailbox).position >= Len(song_deque) =>
                   song_deque'[Len(song_deque')].uuid = id]_vars

\* the last of three songs was moved to the head
C19_Witness ==
    /\ response.tag = "Ok"
    /\ Len(song_deque) = 3
    /\ published = <<QueueUpdated(song_deque)>>
    /\ song_deque[1].uuid = 3
    /\ song_deque[2].uuid = 1
    /\ song_deque[3].uuid = 2
    /\ song_deque[3].status = "Success"

\* C20: Reposition of a uuid that is not queued answers Ok and leaves the queue as
\* it was.
C20_RepositionAbsent ==
    [][(/\ Handles("Reposition")
        /\ ~Queued(song_deque, Head(mailbox).uuid))
       => (/\ response'.tag = "Ok"
           /\ song_deque' = song_deque)]_vars

\* an Ok answer with nothing broadcast: only a Reposition of an absent uuid
C20_Witness ==
    /\ response.tag = "Ok"
    /\ published = <<>>
    /\ Len(song_deque) = 2

\* C21: UpdateSongStatus of a uuid that is not queued answers
\* UpdateSongStatusFailed, leaves the queue as it was and passes no event to the
\* broadcaster; of a queued uuid it answers Ok, sets the status of that song alone,
\* keeps every song at its position and passes one QueueUpdated event carrying the
\* new queue.
C21_UpdateStatus ==
    [][Handles("UpdateSongStatus") =>
        IF Queued(song_deque, Head(mailbox).uuid)
        THEN /\ response'.tag = "Ok"
             /\ Len(song_deque') = Len(song_deque)
             /\ \A i \in 1..Len(song_deque) :
                    song_deque'[i] =
                        IF song_deque[i].uuid = Head(mailbox).uuid
                        THEN [song_deque[i] EXCEPT !.status = Head(mailbox).status]
                        ELSE song_deque[i]
             /\ published' = <<QueueUpdated(song_deque')>>
        ELSE /\ response'.tag = "UpdateSongStatusFailed"
             /\ response'.uuid = Head(mailbox).uuid
             /\ song_deque' = song_deque
             /\ published' = <<>>]_vars

\* the second of two queued songs has been marked Failed, the first has not
C21_Witness ==
    /\ response.tag = "Ok"
    /\ Len(song_deque) = 2
    /\ song_deque[1].status = "InProgress"
    /\ song_deque[2].status = "Failed"
    /\ published = <<QueueUpdated(song_deque)>>

\* C22: handling Current, GetQueue or GetKey changes neither the queue nor the key
\* and passes no event to the broadcaster; handling KeyUp or KeyDown leaves the
\* queue as it was; handling QueueSong, RemoveSong, Reposition or UpdateSongStatus
\* leaves the key as it was.
C22_Frame ==
    [][/\ (Handles("Current") \/ Handles("GetQueue") \/ Handles("GetKey"))
            => (/\ song_deque' = song_deque
                /\ current_key' = current_key
                /\ published' = <<>>)
       /\ (Handles("KeyUp") \/ Handles("KeyDown"))
            => song_deque' = song_deque
       /\ (Handles("QueueSong") \/ Handles("RemoveSong") \/ Handles("Reposition")
                \/ Handles("UpdateSongStatus"))
            => current_key' = current_key]_vars

\* a RemoveSong has been handled with the key away from 0 and a song left queued
C22_Witness ==
    /\ response.tag = "Unit"
    /\ current_key = 2
    /\ Len(song_deque) = 1
    /\ published = <<QueueUpdated(song_deque)>>

\* the successions of a worker's position that the claimed order allows
StepOrder ==
    {<<"recv", "check">>, <<"check", "recv">>, <<"check", "clear">>,
     <<"clear", "recv">>, <<"clear", "fetch">>, <<"fetch", "recv">>,
     <<"fetch", "manifest">>, <<"manifest", "recv">>, <<"manifest", "transcode">>,
     <<"transcode", "recv">>, <<"recv", "search">>, <<"search", "recv">>}

\* the response with which each step may end the job
StepEnds(pc) ==
    CASE pc = "check" -> {"Ok:success"}
      [] pc = "clear" -> {"PitchShiftError:clear"}
      [] pc = "fetch" -> FetchErrors
      [] pc = "manifest" -> {"PitchShiftError:create_status",
                             "PitchShiftError:write_status"}
      [] pc = "transcode" -> {"Ok:path", "PitchShiftError:dash"}
      [] pc = "search" -> {"Ok:results"} \cup SearchErrors

\* C23: a download job goes through CheckCache, then either the response of a hit
\* or, on a miss, the clearing of the directory, Fetch, WriteManifest and
\* Transcode in that order; a hit ends the job at CheckCache, a failing step ends
\* the job with its error, and no step runs for a job that has been answered.
C23_StepOrder ==
    /\ [](\A w \in Workers :
            worker[w].pc \notin {"recv", "dead"} => jobs[worker[w].job.id].sent = 0)
    /\ [][\A w \in Workers :
            worker'[w] # worker[w] =>
                LET j == IF worker[w].pc = "recv"
                         THEN worker'[w].job.id ELSE worker[w].job.id
                IN /\ <<worker[w].pc, worker'[w].pc>> \in StepOrder
                   /\ IF worker'[w].pc = "recv"
                      THEN /\ worker'[w].job = NoJob
                           /\ jobs'[j].sent = 1
                           /\ jobs'[j].resp.val \in StepEnds(worker[w].pc)
                      ELSE /\ worker'[w].job.id = j
                           /\ jobs'[j].sent = 0]_vars

\* a job ended at WriteManifest and its worker is back in recv, while an earlier
\* job of the same pool went through all five steps
C23_Witness ==
    \E i, j \in JobIds :
        /\ jobs[i].resp.val = "Ok:path"
        /\ jobs[j].resp.val = "PitchShiftError:write_status"
        /\ \A w \in jobs[j].by : worker[w].pc = "recv"

\* C24: the cache check of a download job answers the hit exactly when the song's
\* directory exists, status.json exists and parses, its is_key_changeable is true
\* if the job asks for a key-changeable asset, and the chunk file numbered by its
\* segment count exists; in every other case the job goes on to the pipeline.
C24_CacheHit ==
    [][\A w \in Workers :
        (worker[w].pc = "check" /\ worker'[w] # worker[w]) =>
            LET m == worker[w].job
                f == fs[m.name]
                hit == /\ f.dir
                       /\ f.status \in {"plain", "pitch"}
                       /\ (m.is_key_changeable => f.status = "pitch")
                       /\ f.chunk
            IN IF hit
               THEN /\ worker'[w].pc = "recv"
                    /\ jobs'[m.id].resp.val = "Ok:success"
               ELSE /\ worker'[w].pc = "clear"
                    /\ jobs'[m.id].sent = 0]_vars

\* over a complete asset that is not key-changeable, one job was answered the hit
\* and a job asking for a key-changeable asset is past the check as a miss
C24_Witness ==
    /\ \E j \in JobIds : jobs[j].resp.val = "Ok:success"
    /\ \E w \in Workers :
          /\ worker[w].pc = "clear"
          /\ worker[w].job.is_key_changeable
          /\ fs[worker[w].job.name] = [dir |-> TRUE, status |-> "plain", chunk |-> TRUE]

\* C25: a worker that is about to run Fetch finds no directory for the job's
\* song: whatever an earlier run left there was deleted before Fetch starts.
C25_FetchOverCleanDir ==
    \A w \in Workers :
        worker[w].pc = "fetch" => fs[worker[w].job.name] = NoDir

\* C26: when Fetch ends a job, it ends it with one of the fetch errors, the worker
\* is back in its loop without the job, and the step has written no status.json and
\* no chunk; a job answered with a fetch error is held by no worker, so neither
\* WriteManifest nor Transcode runs for it.
C26_FetchFailure ==
    /\ [](\A j \in JobIds :
            jobs[j].resp.val \in FetchErrors =>
                \A w \in Workers : worker[w].job.id # j)
    /\ [][\A w \in Workers :
            (worker[w].pc = "fetch" /\ worker'[w].pc # "manifest"
                /\ worker'[w] # worker[w]) =>
                LET m == worker[w].job
                IN /\ jobs'[m.id].sent = 1
                   /\ jobs'[m.id].resp.val \in FetchErrors
                   /\ worker'[w] = [pc |-> "recv", job |-> NoJob]
                   /\ fs'[m.name].status = fs[m.name].status
                   /\ fs'[m.name].chunk = fs[m.name].chunk]_vars

\* a job was answered DurationParseError; its fetch left a directory without
\* status.json and without chunks, and every worker is back in recv
C26_Witness ==
    /\ \E j \in JobIds : jobs[j].resp.val = "DurationParseError"
    /\ \A n \in PoolNames : fs[n] = [dir |-> TRUE, status |-> "none", chunk |-> FALSE]
    /\ \A w \in Workers : worker[w].pc = "recv"

\* C27: a Transcode step that fails answers the job with the transcoding error and
\* leaves the directory, status.json included, as it found it; and a job whose
\* cache check finds the chunk file numbered by the manifest absent is not answered
\* a hit but goes to the clearing step, which deletes the directory and passes on
\* to Fetch, or ends the job with an error when the deletion fails.
C27_TranscodeFailure ==
    [][\A w \in Workers :
        LET m == worker[w].job
        IN /\ (worker[w].pc = "transcode" /\ worker'[w] # worker[w]
                    /\ jobs'[m.id].resp.val # "Ok:path") =>
                (/\ jobs'[m.id].sent = 1
                 /\ jobs'[m.id].resp.val = "PitchShiftError:dash"
                 /\ worker'[w] = [pc |-> "recv", job |-> NoJob]
                 /\ fs' = fs)
           /\ (worker[w].pc = "check" /\ worker'[w] # worker[w]
                    /\ ~fs[m.name].chunk) =>
                (/\ worker'[w] = [pc |-> "clear", job |-> m]
                 /\ jobs'[m.id].sent = 0)
           /\ (worker[w].pc = "clear" /\ worker'[w] # worker[w]
                    /\ fs[m.name].dir) =>
                \/ /\ worker'[w] = [pc |-> "fetch", job |-> m]
                   /\ fs'[m.name] = NoDir
                \/ /\ worker'[w] = [pc |-> "recv", job |-> NoJob]
                   /\ jobs'[m.id].resp.val = "PitchShiftError:clear"
                   /\ fs' = fs]_vars

\* a job was answered the transcoding error, and the worker that handled it has
\* taken a later job through the cache check and the clearing into a new Transcode
C27_Witness ==
    \E i, j \in JobIds :
        /\ i < j
        /\ jobs[i].resp.val = "PitchShiftError:dash"
        /\ jobs[j].by = jobs[i].by
        /\ \E w \in jobs[j].by :
              /\ worker[w].pc = "transcode"
              /\ worker[w].job.id = j
              /\ fs[worker[w].job.name].status \in {"plain", "pitch"}
              /\ ~fs[worker[w].job.name].chunk

\* C28: every Ok answer of a download job carries the path of the asset, after a
\* cache hit as after a completed Transcode.
C28_OkCarriesPath ==
    poolKind = "dl" =>
        \A j \in JobIds :
            (jobs[j].sent > 0 /\ jobs[j].resp.val \in OkValues) =>
                jobs[j].resp.val = "Ok:path"

\* C29: a message pending in the mailbox can always be handled, its events
\* included, whatever the number of open streams and however far behind their
\* cursors are.
C29_PublishNeverBlocks ==
    Len(mailbox) > 0 => ENABLED run_song_actor_sse

\* a message is pending while an open stream is more than a whole buffer behind
C29_Witness ==
    /\ Len(mailbox) > 0
    /\ \E s \in Streams :
          /\ bcast.streams[s].active
          /\ bcast.tail - bcast.streams[s].next > BufferLen

\* what an open stream has yielded, for a channel that keeps cap values: events of
\* the log at their positions, none from before it subscribed, in increasing
\* position; what it has not yielded is what Lagged reported; and nothing is
\* missing while it has never been more than cap behind
DeliveredWithin(cap) ==
    \A s \in Streams :
        LET st == bcast.streams[s]
        IN st.active =>
            /\ st.since <= st.next /\ st.next <= bcast.tail
            /\ \A i \in 1..Len(st.got) :
                  /\ st.since <= st.got[i].pos /\ st.got[i].pos < st.next
                  /\ st.got[i].val = bcast.log[st.got[i].pos + 1]
            /\ \A i \in 1..(Len(st.got) - 1) : st.got[i].pos < st.got[i + 1].pos
            /\ Len(st.got) + st.missed = st.next - st.since
            /\ st.behind <= cap => st.missed = 0

\* a recv of an open stream, for a channel that keeps cap values: up to cap behind
\* it yields the event at its cursor; further behind it yields nothing, loses the
\* events older than the cap newest, and stays open with its cursor on the oldest
\* of those
RecvWithin(cap) ==
    \A s \in Streams :
        LET st == bcast.streams[s]
            nx == bcast'.streams[s]
        IN (st.active /\ nx.active /\ nx.next # st.next) =>
            IF bcast.tail - st.next <= cap
            THEN /\ nx.next = st.next + 1
                 /\ nx.got = Append(st.got, [pos |-> st.next,
                                             val |-> bcast.log[st.next + 1]])
                 /\ nx.missed = st.missed
            ELSE /\ nx.next = bcast.tail - cap
                 /\ nx.got = st.got
                 /\ nx.missed = st.missed + (nx.next - st.next)

\* C30, as stated: the channel keeps 10 events, the capacity it was created with.
C30_AsStated ==
    /\ []DeliveredWithin(BroadcastCapacity)
    /\ [][RecvWithin(BroadcastCapacity)]_vars

\* C30, amended: a stream yields, in publication order and once each, every event
\* published after it subscribed and none published before, as long as it is never
\* more than 16 events behind; a stream more than 16 behind loses the events older
\* than the 16 newest and goes on from the oldest of those without ending.
C30_Delivery ==
    /\ []DeliveredWithin(16)
    /\ [][RecvWithin(16)]_vars

\* a stream yielded the first event, fell 17 behind, lost one event and went on
\* with the next
C30_Witness ==
    \E s \in Streams :
        LET st == bcast.streams[s]
        IN /\ st.active
           /\ st.behind = 17
           /\ st.missed = 1
           /\ Len(st.got) = 2
           /\ st.got[1].pos = st.since
           /\ st.got[2].pos = st.since + 2

\* C31: whenever current_key takes a new value, the step that changes it passes a
\* KeyChange event carrying the new value to the broadcaster.
C31_KeyChangeNotified ==
    [][current_key' # current_key =>
        \E i \in 1..Len(published') : published'[i] = KeyChange(current_key')]_vars

\* the messages of caller c that are in the mailbox
PendingOf(c) == SelectSeq(mailbox, LAMBDA m : m.from = c)

\* C32: every message accepted into the mailbox is handled and answered exactly
\* once, also when an error was answered before it: a caller waits exactly while
\* its one message is in the mailbox, every turn of the actor takes one message out
\* and answers its sender, and every waiting caller is eventually answered.
C32_HandledOnce ==
    /\ [](\A c \in Callers :
            Len(PendingOf(c)) = IF callerPc[c] = "waiting" THEN 1 ELSE 0)
    /\ [][mailbox' # mailbox /\ Len(mailbox') < Len(mailbox) + 1 =>
            LET m == Head(mailbox)
            IN /\ mailbox' = Tail(mailbox)
               /\ response'.to = m.from
               /\ response'.tag # "none"
               /\ callerPc[m.from] = "waiting"
               /\ callerPc' = [callerPc EXCEPT ![m.from] = "replied"]]_vars
    /\ \A c \in Callers : (callerPc[c] = "waiting") ~> (callerPc[c] = "replied")

\* the actor has just answered KeyUpFailed and the other caller's message is pending
C32_Witness ==
    /\ response.tag = "KeyUpFailed"
    /\ Len(mailbox) > 0
    /\ current_key = KeyUpperBound

\* the jobs being executed: dequeued by a worker and not yet answered
Executing == {j \in JobIds : jobs[j].by # {} /\ jobs[j].sent = 0}

\* C33: at most 5 download jobs and at most 10 search jobs are being executed at
\* any time, and every worker is executing at most one.
C33_AtMostWorkers ==
    /\ poolKind = "dl" => Cardinality(Executing) <= 5
    /\ poolKind = "search" => Cardinality(Executing) <= 10
    /\ \A w \in Workers : Cardinality({j \in Executing : w \in jobs[j].by}) <= 1

\* ten search jobs are being executed and the eleventh waits in the queue
C33_Witness ==
    /\ poolKind = "search"
    /\ Cardinality(Executing) = 10
    /\ Len(jobQueue) = 1

\* C34: a job whose caller has stopped waiting goes through the same steps as any
\* other and ends as they do, its response being dropped; the worker is then back
\* in its loop without the job; and every such job is eventually run to its end.
C34_RunsWithoutCaller ==
    /\ [][\A w \in Workers :
            (IF worker'[w] # worker[w] /\ worker[w].job # NoJob
             THEN jobs[worker[w].job.id].pc = "gone" ELSE FALSE) =>
                LET j == worker[w].job.id
                IN /\ <<worker[w].pc, worker'[w].pc>> \in StepOrder
                   /\ IF worker'[w].pc = "recv"
                      THEN /\ worker'[w].job = NoJob
                           /\ jobs'[j].resp.val \in StepEnds(worker[w].pc)
                           /\ jobs'[j].sent = 0
                      ELSE /\ worker'[w].job.id = j
                           /\ jobs'[j] = jobs[j]]_vars
    /\ \A j \in 1..MaxJobs :
          (IF j \in JobIds THEN jobs[j].pc = "gone" ELSE FALSE)
            ~> (IF j \in JobIds
                THEN /\ jobs[j].resp.val # "none"
                     /\ \A w \in Workers : worker[w].job.id # j
                                              /\ worker[w].pc # "dead"
                ELSE FALSE)

\* a job whose caller had gone was transcoded to the end, and the worker that ran
\* it has answered a later job
C34_Witness ==
    \E i, j \in JobIds :
        /\ i < j
        /\ jobs[i].pc = "gone"
        /\ jobs[i].resp.val = "Ok:path"
        /\ jobs[j].by = jobs[i].by
        /\ jobs[j].sent = 1

\* C35: a step that changes the queue passes exactly one QueueUpdated event to the
\* broadcaster, and every QueueUpdated event a step passes carries the queue as the
\* step leaves it: the last QueueUpdated published is always the current queue.
C35_ChangePublished ==
    [][/\ song_deque' # song_deque => published' = <<QueueUpdated(song_deque')>>
       /\ Len(mailbox') < Len(mailbox) =>
            \A i \in 1..Len(published') :
                published'[i].type = "QueueUpdated" =>
                    published'[i].queue = song_deque']_vars

\* the event of the last step carries a queue of two songs, one of them no longer
\* InProgress and moved behind the other
C35_Witness ==
    /\ Len(song_deque) = 2
    /\ song_deque[1].uuid > song_deque[2].uuid
    /\ song_deque[2].status = "Success"
    /\ response.tag = "Ok"
    /\ published = <<QueueUpdated(song_deque)>>

\* C36: a queued song is InProgress as long as its own request has sent no status
\* update; its status changes only from InProgress to Success or Failed, to the
\* status its own download's result maps to; a song enters the queue InProgress.
StatusIn(q, id) == q[Position(q, id)].status

C36_StatusChangesOnce ==
    /\ [](\A u \in RouteIds :
            (Queued(song_deque, u) /\ route[u].updates = <<>>) =>
                StatusIn(song_deque, u) = "InProgress")
    /\ [][\A u \in RouteIds :
            /\ (Queued(song_deque, u) /\ Queued(song_deque', u)
                    /\ StatusIn(song_deque', u) # StatusIn(song_deque, u)) =>
                    /\ StatusIn(song_deque, u) = "InProgress"
                    /\ StatusIn(song_deque', u) \in {"Success", "Failed"}
                    /\ route[u].result # "none"
                    /\ StatusIn(song_deque', u) = StatusOf(route[u].result)
            /\ (~Queued(song_deque, u) /\ Queued(song_deque', u)) =>
                    StatusIn(song_deque', u) = "InProgress"]_vars

\* a queued song is Failed after its download failed, and its request is over
C36_Witness ==
    \E u \in RouteIds :
        /\ Queued(song_deque, u)
        /\ StatusIn(song_deque, u) = "Failed"
        /\ route[u].pc = "done"

\* C37: the status update of a request names the id of the request's own song;
\* handled when that song has left the queue, it is answered UpdateSongStatusFailed
\* with that id, publishes nothing and leaves the queue as it was, whatever song
\* of the same name has been enqueued since; and no update changes the status of
\* another request's song.
C37_OldJobLeavesNewSong ==
    [][\A r \in RouteIds :
        (Handles("UpdateSongStatus") /\ Head(mailbox).from = r) =>
            /\ Head(mailbox).uuid = r
            /\ ~Queued(song_deque, r) =>
                    /\ song_deque' = song_deque
                    /\ response'.tag = "UpdateSongStatusFailed"
                    /\ response'.uuid = r
                    /\ published' = <<>>
            /\ \A u \in RouteIds \ {r} :
                    Queued(song_deque, u) =>
                        /\ Queued(song_deque', u)
                        /\ StatusIn(song_deque', u) = StatusIn(song_deque, u)]_vars

\* the first request's song left the queue while its download ran, the second
\* request enqueued the same name, and the first download's update was refused
C37_Witness ==
    \E r, u \in RouteIds :
        /\ r # u
        /\ route[r].pc \in {"updating", "done"}
        /\ route[r].reply = "UpdateSongStatusFailed"
        /\ route[u].name = route[r].name
        /\ Queued(song_deque, u)
        /\ StatusIn(song_deque, u) = "InProgress"
        /\ route[u].pc = "downloading"

\* C38: a QueueSong answered SongAlreadyQueued, an UpdateSongStatus answered
\* UpdateSongStatusFailed, a KeyUp or KeyDown answered with its bound error and a
\* Reposition of an id that is not queued pass no event to the broadcaster and
\* leave the queue and the key as they were.
Refused ==
    \/ response'.tag \in ErrorTags
    \/ Handles("Reposition") /\ ~Queued(song_deque, Head(mailbox).uuid)

C38_FailurePublishesNothing ==
    [][(Len(mailbox') < Len(mailbox) /\ Refused) =>
            /\ published' = <<>>
            /\ song_deque' = song_deque
            /\ current_key' = current_key]_vars

\* a KeyDown at the lower bound has just been refused with songs in the queue: the
\* step published nothing and the key is still the bound
C38_Witness ==
    /\ response.tag = "KeyDownFailed"
    /\ current_key = KeyLowerBound
    /\ song_deque # <<>>
    /\ published = <<>>

\* C39: RemoveSong and Reposition leave the songs other than the one they name
\* in the order they had, none added and none dropped; and the queue after a
\* Reposition holds every song as often as the queue before it.
Count(q, s) == Cardinality({i \in 1..Len(q) : q[i] = s})
Songs(q) == {q[i] : i \in 1..Len(q)}
Permutation(p, q) ==
    /\ Len(p) = Len(q)
    /\ \A s \in Songs(p) \cup Songs(q) : Count(p, s) = Count(q, s)

C39_OrderOfOthersKept ==
    [][/\ Handles("RemoveSong") =>
            Without(song_deque', Head(mailbox).uuid) =
                Without(song_deque, Head(mailbox).uuid)
       /\ Handles("Reposition") =>
            /\ Without(song_deque', Head(mailbox).uuid) =
                    Without(song_deque, Head(mailbox).uuid)
            /\ Permutation(song_deque, song_deque')]_vars

\* the first of three songs, already Failed, was moved between the other two
C39_Witness ==
    /\ response.tag = "Ok"
    /\ Len(song_deque) = 3
    /\ published = <<QueueUpdated(song_deque)>>
    /\ song_deque[1].uuid = 2
    /\ song_deque[2].uuid = 1
    /\ song_deque[3].uuid = 3
    /\ song_deque[2].status = "Failed"
    /\ song_deque[1].status = "InProgress"

\* C40: with a message in the mailbox the actor can take its turn, whatever the
\* workers and the subscribers do; a worker that holds a job can take its next
\* step, whatever the mailbox holds; and as long as a request or a job is pending,
\* the actor, a worker or a waiting task can take a step without any new request.
WorkerTurn(w) ==
    \/ CheckCache(w) \/ ClearStale(w) \/ Fetch(w) \/ WriteManifest(w)
    \/ Transcode(w) \/ BinaryPathPanic(w)

TaskTurn ==
    \/ \E r \in RouteIds :
          \/ RouteResume(r) \/ RouteDownload(r) \/ RouteReceive(r)
          \/ RouteUpdate(r) \/ RoutePanic(r)
    \/ CallerReturn(AdminCaller)

PendingWork ==
    \/ mailbox # <<>>
    \/ jobQueue # <<>>
    \/ \E w \in Workers : worker[w].job # NoJob
    \/ \E r \in RouteIds : route[r].pc \notin {"new", "rejected", "done", "panicked"}
    \/ callerPc[AdminCaller] # "idle"

====
